---- MODULE Spec2Model ----
(***************************************************************************)
(* Softphone call session: the CallStore state machine                     *)
(* (src/src/js/services/CustomerService.js), the TwilioService connection  *)
(* bookkeeping (src/src/js/services/TwilioService.js) and the page         *)
(* handlers that tie them together (src/src/main.js).                      *)
(*                                                                         *)
(* Time is counted in whole seconds (1000 ms of the source = 1).  The      *)
(* browser's timer queue is the sequence `timers`, in scheduling order; a   *)
(* due timer fires before the clock advances, and timers due at the same   *)
(* instant fire in the order they were scheduled.  A timer is identified   *)
(* by the session that scheduled it and its kind (each session schedules   *)
(* at most one timer of each kind).  JavaScript null / absent values are   *)
(* modelled as the empty set and a present value x as {x}.                 *)
(*                                                                         *)
(* The customer lookup endpoint of the server (src/server/main.go,         *)
(* getCustomerByPhone over the queries of src/server/schema.sql) is the    *)
(* second specification, ServerSpec: the customers table is its input and  *)
(* each request is answered in one step.                                   *)
(***************************************************************************)
EXTENDS Integers, Sequences, FiniteSets, TLC

\* ---------------------------------------------------------------- bounds
MaxCalls == 2      \* sessions (receiveCall / initiateCall) per behaviour
MaxTime == 3       \* seconds of simulated time
MaxCustomers == 2  \* rows of the customers table
MaxStamp == 2      \* distinct created_at values of those rows
MaxLen == 2        \* characters of the phone parameter of a request

\* ------------------------------------------------------ program constants
DeclineResetDelay == 2   \* setTimeout(..., 2000) in declineCall
EndResetDelay == 2       \* setTimeout(..., 2000) in endCall, from active
CancelResetDelay == 1    \* setTimeout(..., 1000) in endCall, from outgoing
SimulateDelay == 2       \* setTimeout(..., 2000) in simulateConnection
TickPeriod == 1          \* setInterval(..., 1000) in startDurationTimer

\* ------------------------------------------------------- optional values
None == {}
Some(x) == {x}
The(o) == CHOOSE x \in o : TRUE

\* ------------------------------------------------------------- strings
\* A JavaScript string is a sequence of one-character strings.
Digits == {"0", "1", "2", "3", "4", "5", "6", "7", "8", "9"}

RECURSIVE Filter(_, _)
Filter(s, keep) ==
  IF s = <<>> THEN <<>>
  ELSE IF Head(s) \in keep THEN <<Head(s)>> \o Filter(Tail(s), keep)
       ELSE Filter(Tail(s), keep)

startsWith(s, p) == Len(s) >= Len(p) /\ SubSeq(s, 1, Len(p)) = p

\* String.prototype.trim() followed by .length > 0
trimmedNonEmpty(s) == \E i \in 1..Len(s) : s[i] # " "

\* normalizePhoneNumber without its second rule (leading 27)
normalizeLeadingZeroOnly(number) ==
  LET n0 == Filter(number, Digits \cup {"+"})
  IN IF startsWith(n0, <<"0">>)
     THEN <<"+", "2", "7">> \o SubSeq(n0, 2, Len(n0))
     ELSE n0

\* main.js normalizePhoneNumber
normalizePhoneNumber(number) ==
  LET n0 == Filter(number, Digits \cup {"+"})
      n1 == IF startsWith(n0, <<"0">>)
            THEN <<"+", "2", "7">> \o SubSeq(n0, 2, Len(n0))
            ELSE n0
      n2 == IF startsWith(n1, <<"2", "7">>) /\ ~startsWith(n1, <<"+">>)
            THEN <<"+">> \o n1
            ELSE n1
  IN n2

\* ------------------------------------------------------------- inputs
\* What the number field may hold when the dial button is pressed.
DialInputs ==
  { <<>>, <<" ">>, <<"-">>, <<"0", "6">>, <<"+", "2", "7", " ", "6">> }

\* connection.parameters.From of an inbound call
RingNumbers == { <<"+", "1", "5">> }

\* Customer rows the directory provider may answer with.
Customers ==
  { [first_name |-> <<"A">>, last_name |-> <<"B">>,
     medical_aid_provider |-> <<"M">>, medical_plan |-> <<"P">>] }

Undefined == <<"u", "n", "d", "e", "f">>   \* an absent object property

\* ---------------------------------------------------- CustomerService
formatDisplayName(customer) ==
  IF customer = None THEN None
  ELSE Some(The(customer).first_name \o <<" ">> \o The(customer).last_name)

formatCustomerInfo(customer) ==
  IF customer = None THEN None
  ELSE Some([ name |-> The(formatDisplayName(customer)),
              line1 |-> The(customer).medical_aid_provider,
              line2 |-> IF The(customer).medical_plan # <<>>
                        THEN <<"(">> \o The(customer).medical_plan \o <<")">>
                        ELSE <<>> ])

\* ------------------------------------------------------------- state
VARIABLES
  state,              \* CallStore.state.state (the phase)
  caller,             \* CallStore.state.caller
  duration,           \* CallStore.state.duration
  startTime,          \* CallStore.state.startTime
  durationTimer,      \* CallStore.durationTimer
  timers,             \* pending setTimeout / setInterval entries
  now,                \* Date.now(), in seconds
  isInitialized,      \* TwilioService.isInitialized (device set with it)
  currentConnection,  \* TwilioService.currentConnection
  conns,              \* connections with handlers attached: id -> status
  dials,              \* handleDialCall invocations awaiting makeCall
  lookups,            \* getCustomerByPhone requests in flight
  session,            \* number of sessions created so far (history)
  screen,             \* the snapshot the subscribed listener received last
  lastLookup,         \* set by the step that completes a lookup: what it
                      \* was and what it did (history, cleared by any other)
  customers,          \* server: rows of the customers table, by id
  request,            \* server: the phone parameter of the request
  response,           \* server: what the request was answered with
  args,               \* the input of the function or lookup under study
  rets,               \* what has been computed from it so far, in order
  users,              \* server: rows of the users table, by id
  sessions,           \* server: rows of the sessions table
  minted,             \* server: number of session ids generated so far
  clock,              \* server: time.Now(), in session lifetimes
  pending,            \* server: register requests between check and insert
  reply               \* server: the last answer of an authenticated route

vars == << state, caller, duration, startTime, durationTimer, timers, now,
           isInitialized, currentConnection, conns, dials, lookups, session,
           screen, lastLookup, customers, request, response, args, rets,
           users, sessions, minted, clock, pending, reply >>

\* the browser page's variables and the server's
page == << state, caller, duration, startTime, durationTimer, timers, now,
           isInitialized, currentConnection, conns, dials, lookups, session,
           screen, lastLookup >>
server == << customers, request, response >>
pure == << args, rets >>
auth == << users, sessions, minted, clock, pending, reply >>

Phases == {"idle", "incoming", "outgoing", "active", "ended"}
Live == {"incoming", "outgoing", "active"}

\* The CallStore together with the timer queue its methods schedule on;
\* `emitted` collects the snapshots notify() delivers while a handler runs.
Store ==
  [ state |-> state, caller |-> caller, duration |-> duration,
    startTime |-> startTime, durationTimer |-> durationTimer,
    timers |-> timers, session |-> session, emitted |-> <<>>,
    lastLookup |-> None ]

Commit(W) ==
  /\ state' = W.state
  /\ caller' = W.caller
  /\ duration' = W.duration
  /\ startTime' = W.startTime
  /\ durationTimer' = W.durationTimer
  /\ timers' = W.timers
  /\ session' = W.session
  /\ screen' = IF W.emitted = <<>> THEN screen
                ELSE Some(W.emitted[Len(W.emitted)])
  /\ lastLookup' = W.lastLookup

\* --------------------------------------------------------- CallStore
getState(W) ==
  [ state |-> W.state, caller |-> W.caller, duration |-> W.duration,
    startTime |-> W.startTime ]

notify(W) == [W EXCEPT !.emitted = Append(@, getState(W))]

setTimeout(W, kind, delay) ==
  [W EXCEPT !.timers = Append(@, [ kind |-> kind, due |-> now + delay,
                                   sess |-> W.session ])]

\* receiveCall as it would be if it kept the clock of the previous session
receiveCallKeepsClock(W, c) ==
  notify([W EXCEPT !.state = "incoming", !.caller = Some(c),
                   !.session = @ + 1])

receiveCall(W, c) ==
  notify([W EXCEPT !.state = "incoming", !.caller = Some(c),
                   !.duration = 0, !.startTime = None,
                   !.session = @ + 1])

simulateConnection(W) == setTimeout(W, "simulate", SimulateDelay)

\* initiateCall as it would be if it started the clock when dialling
initiateCallStartsClock(W, number, callerInfo) ==
  LET c == IF callerInfo # None THEN The(callerInfo)
           ELSE [ name |-> number, number |-> number, line1 |-> <<>>,
                  line2 |-> <<>>, location |-> Undefined ]
  IN simulateConnection(
       notify([W EXCEPT !.state = "outgoing", !.caller = Some(c),
                        !.duration = 0, !.startTime = Some(now),
                        !.session = @ + 1]))

initiateCall(W, number, callerInfo) ==
  LET c == IF callerInfo # None THEN The(callerInfo)
           ELSE [ name |-> number, number |-> number, line1 |-> <<>>,
                  line2 |-> <<>>, location |-> Undefined ]
  IN simulateConnection(
       notify([W EXCEPT !.state = "outgoing", !.caller = Some(c),
                        !.duration = 0, !.startTime = None,
                        !.session = @ + 1]))

startDurationTimer(W) ==
  [W EXCEPT !.durationTimer = Some(W.session),
            !.timers = Append(@, [ kind |-> "interval",
                                   due |-> now + TickPeriod,
                                   sess |-> W.session ])]

stopDurationTimer(W) ==
  IF W.durationTimer # None
  THEN [W EXCEPT !.timers = SelectSeq(@, LAMBDA t :
                              ~(t.kind = "interval"
                                /\ t.sess \in W.durationTimer)),
                 !.durationTimer = None]
  ELSE W

\* the callback simulateConnection schedules
simulateConnectionFired(W) ==
  IF W.state = "outgoing"
  THEN notify(startDurationTimer(
         [W EXCEPT !.state = "active", !.startTime = Some(now)]))
  ELSE W

\* acceptCall as it would be if it did not start the duration ticker
acceptCallNoTicker(W) ==
  IF W.state = "incoming"
  THEN notify([W EXCEPT !.state = "active", !.startTime = Some(now)])
  ELSE W

acceptCall(W) ==
  IF W.state = "incoming"
  THEN notify(startDurationTimer(
         [W EXCEPT !.state = "active", !.startTime = Some(now)]))
  ELSE W

declineCall(W) ==
  IF W.state = "incoming"
  THEN setTimeout(notify([W EXCEPT !.state = "ended"]),
                  "reset", DeclineResetDelay)
  ELSE W

\* endCall as it would be if its second branch had no phase test
endCallUnguarded(W) ==
  IF W.state = "active"
  THEN setTimeout(notify([stopDurationTimer(W) EXCEPT !.state = "ended"]),
                  "reset", EndResetDelay)
  ELSE setTimeout(notify([W EXCEPT !.state = "ended"]),
                  "reset", CancelResetDelay)

endCall(W) ==
  IF W.state = "active"
  THEN setTimeout(notify([stopDurationTimer(W) EXCEPT !.state = "ended"]),
                  "reset", EndResetDelay)
  ELSE IF W.state = "outgoing"
  THEN setTimeout(notify([W EXCEPT !.state = "ended"]),
                  "reset", CancelResetDelay)
  ELSE W

\* resetCall as it would be if it forgot to clear the caller
resetCallKeepsCaller(W) ==
  notify([W EXCEPT !.state = "idle", !.duration = 0, !.startTime = None])

resetCall(W) ==
  notify([W EXCEPT !.state = "idle", !.caller = None, !.duration = 0,
                   !.startTime = None])

\* the interval callback as it would be if it did not notify
durationTickSilent(W) ==
  IF W.startTime # None
  THEN [W EXCEPT !.duration = now - The(W.startTime)]
  ELSE W

\* the callback startDurationTimer schedules
durationTick(W) ==
  IF W.startTime # None
  THEN notify([W EXCEPT !.duration = now - The(W.startTime)])
  ELSE W


\* ------------------------------------------------------- TwilioService
\* conns[c] is the transport's status of connection c:
\*   "open"    events of c may still be delivered
\*   "closed"  the disconnect / reject event of c has been delivered
Twilio == [ currentConnection |-> currentConnection, conns |-> conns ]

CommitTwilio(T) ==
  /\ currentConnection' = T.currentConnection
  /\ conns' = T.conns

isReady == isInitialized

\* a new connection object with setupConnectionHandlers applied to it,
\* stored in currentConnection (device.on('incoming') and makeCall)
attachConnection(T) ==
  [T EXCEPT !.conns = Append(@, "open"),
            !.currentConnection = Some(Len(T.conns) + 1)]

twilioAcceptCall(T) == T

twilioRejectCall(T) ==
  IF T.currentConnection # None
  THEN [T EXCEPT !.currentConnection = None]
  ELSE T

twilioDisconnect(T) ==
  IF T.currentConnection # None
  THEN [T EXCEPT !.currentConnection = None]
  ELSE T

\* connection.on('disconnect') and connection.on('reject') of connection c
connectionClosed(T, c) ==
  [T EXCEPT !.conns[c] = "closed", !.currentConnection = None]

\* ------------------------------------------------------------ lookups
\* What getCustomerByPhone resolves to: null (not found, HTTP or network
\* failure) or a customer row.  It never rejects.
Answers == {None} \cup { Some(k) : k \in Customers }

enriched(c, formattedInfo) ==
  [c EXCEPT !.name = formattedInfo.name, !.line1 = formattedInfo.line1,
            !.line2 = formattedInfo.line2]

\* the inbound callback as it would be if it accepted every live phase
incomingLookupDoneLive(W, customer) ==
  IF customer # None /\ W.state \in Live
  THEN notify([W EXCEPT !.caller =
                 Some(enriched(The(W.caller),
                               The(formatCustomerInfo(customer))))])
  ELSE W

\* the .then callback of the inbound lookup (onIncoming)
incomingLookupDone(W, customer) ==
  IF customer # None /\ W.state = "incoming"
  THEN LET formattedInfo == formatCustomerInfo(customer)
       IN notify([W EXCEPT !.caller =
                             Some(enriched(The(W.caller), The(formattedInfo)))])
  ELSE W

\* the outbound callback as it would be without its phase test (spreading
\* a null caller yields an object with only the enriched fields)
outgoingLookupDoneAnyPhase(W, customer) ==
  IF customer # None
  THEN LET old == IF W.caller # None THEN The(W.caller)
                  ELSE [ name |-> Undefined, number |-> Undefined,
                         line1 |-> Undefined, line2 |-> Undefined,
                         location |-> Undefined ]
       IN notify([W EXCEPT !.caller =
                    Some(enriched(old, The(formatCustomerInfo(customer))))])
  ELSE W

\* the outbound callback as it would be if it read the fields of a null
\* formattedInfo with ?. (no throw: the fields come out undefined)
outgoingLookupDoneNoThrow(W, customer) ==
  IF (customer # None /\ W.state = "outgoing") \/ W.state = "active"
  THEN LET formattedInfo ==
             IF customer = None
             THEN [ name |-> Undefined, line1 |-> Undefined,
                    line2 |-> Undefined ]
             ELSE The(formatCustomerInfo(customer))
       IN notify([W EXCEPT !.caller =
                    Some(enriched(The(W.caller), formattedInfo))])
  ELSE W

\* the .then callback of the outbound lookup (handleDialCall); reading
\* formattedInfo.name of a null formattedInfo throws before the assignment
\* and the .catch swallows it
outgoingLookupDone(W, customer) ==
  IF (customer # None /\ W.state = "outgoing") \/ W.state = "active"
  THEN LET formattedInfo == formatCustomerInfo(customer)
       IN IF formattedInfo = None
          THEN W
          ELSE notify([W EXCEPT !.caller =
                         Some(enriched(The(W.caller), The(formattedInfo)))])
  ELSE W

\* -------------------------------------------------- server: customers
\* Characters a phone parameter is made of, and all parameters up to MaxLen.
PhoneChars == {"+", "2", "7", " "}
Queries == UNION { [1..n -> PhoneChars] : n \in 0..MaxLen }

\* customers.phone is a nullable TEXT column: NULL, or any text.
StoredPhones ==
  { None, Some(<<>>), Some(<<" ">>), Some(<<"2", "7">>),
    Some(<<"2", " ", "7">>) }

\* The customers table: row i has id i.
Directories ==
  UNION { [1..n -> [phone : StoredPhones, created_at : 1..MaxStamp]] :
          n \in 0..MaxCustomers }

\* normalizePhoneNumber as it would be if it let dots through
serverNormalizeKeepsDots(phone) == Filter(phone, Digits \cup {"+", "."})

\* server/main.go normalizePhoneNumber
serverNormalizePhoneNumber(phone) == Filter(phone, Digits \cup {"+"})

\* What a query returns: err is "nil", "ErrNoRows" or "other" (any other
\* database error).

\* GetCustomerByPhone as it would be if it never found a row
GetCustomerByPhoneNoRows(rows, phone) == { [err |-> "ErrNoRows", id |-> 0] }

\* SELECT * FROM customers WHERE phone = ?  (:one, no ORDER BY: whichever
\* matching row the engine meets first)
GetCustomerByPhone(rows, phone) ==
  LET hit == { i \in 1..Len(rows) : rows[i].phone = Some(phone) }
  IN { [err |-> "other", id |-> 0] }
     \cup (IF hit = {} THEN { [err |-> "ErrNoRows", id |-> 0] }
           ELSE { [err |-> "nil", id |-> i] : i \in hit })

\* SELECT * FROM customers ORDER BY created_at DESC  (:many; rows with
\* equal created_at come in whatever order the engine produces)
GetAllCustomers(rows) ==
  LET n == Len(rows)
      sorted == { q \in [1..n -> 1..n] :
                    \A i, j \in 1..n :
                      i < j => /\ q[i] # q[j]
                               /\ rows[q[i]].created_at
                                    >= rows[q[j]].created_at }
  IN { [err |-> "other", ids |-> <<>>] }
     \cup { [err |-> "nil", ids |-> q] : q \in sorted }

customerRow(rows, i) ==
  [ id |-> i, phone |-> rows[i].phone, created_at |-> rows[i].created_at ]

\* the scan as it would be without the c.Phone.Valid test (the String of
\* a NULL phone is "")
findNormalizedAnyRow(rows, ids, normalizedPhone) ==
  LET text(i) == IF rows[i].phone = None THEN <<>> ELSE The(rows[i].phone)
      hits == { k \in 1..Len(ids) :
                  serverNormalizePhoneNumber(text(ids[k])) = normalizedPhone }
  IN IF hits = {} THEN None
     ELSE Some(ids[CHOOSE k \in hits : \A h \in hits : k <= h])

\* the for loop of getCustomerByPhone over the rows GetAllCustomers returned
RECURSIVE findNormalized(_, _, _)
findNormalized(rows, ids, normalizedPhone) ==
  IF ids = <<>> THEN None
  ELSE LET c == rows[Head(ids)]
       IN IF c.phone # None
             /\ serverNormalizePhoneNumber(The(c.phone)) = normalizedPhone
          THEN Some(Head(ids))
          ELSE findNormalized(rows, Tail(ids), normalizedPhone)

\* HTTP answers: respondError, CustomerResponse{false, nil} and
\* CustomerResponse{true, &customer}; normalizedPhone is what the handler
\* logs as the normalised input when it takes the fallback path
respondError(status) ==
  [ status |-> status, success |-> FALSE, customer |-> None,
    normalizedPhone |-> None ]

\* Server.getCustomerByPhone, given what its two queries return
getCustomerByPhone(rows, phone, exact, all) ==
  IF phone = <<>> THEN respondError(400)
  ELSE IF exact.err = "other" THEN respondError(500)
  ELSE IF exact.err = "ErrNoRows"
  THEN LET normalizedPhone == serverNormalizePhoneNumber(phone)
       IN IF all.err # "nil"
          THEN [respondError(500) EXCEPT
                  !.normalizedPhone = Some(normalizedPhone)]
          ELSE LET found == findNormalized(rows, all.ids, normalizedPhone)
               IN [ status |-> 200, success |-> found # None,
                    customer |-> IF found = None THEN None
                                 ELSE Some(customerRow(rows, The(found))),
                    normalizedPhone |-> Some(normalizedPhone) ]
  ELSE [ status |-> 200, success |-> TRUE,
         customer |-> Some(customerRow(rows, exact.id)),
         normalizedPhone |-> None ]

\* ------------------------------------------------------------ actions
\* the page after construction
PageInit ==
  /\ state = "idle"
  /\ caller = None
  /\ duration = 0
  /\ startTime = None
  /\ durationTimer = None
  /\ timers = <<>>
  /\ now = 0
  /\ isInitialized = FALSE
  /\ currentConnection = None
  /\ conns = <<>>
  /\ dials = {}
  /\ lookups = {}
  /\ session = 0
  /\ screen = None
  /\ lastLookup = None

\* the server's variables play no part in the page's behaviour
\* the server's users and sessions tables are empty, no request is being
\* served
AuthInit ==
  /\ users = <<>>
  /\ sessions = {}
  /\ minted = 0
  /\ clock = 0
  /\ pending = <<>>
  /\ reply = None

Init ==
  /\ PageInit
  /\ AuthInit
  /\ customers = <<>>
  /\ request = None
  /\ response = None
  /\ args = None
  /\ rets = <<>>

\* handleInitTwilio, when the token fetch and device registration succeed
handleInitTwilio ==
  /\ ~isReady
  /\ isInitialized' = TRUE
  /\ Commit(Store)
  /\ UNCHANGED << server, pure, auth >>
  /\ UNCHANGED << now, currentConnection, conns, dials, lookups >>

\* device.on('incoming') followed by the onIncoming listener
onIncoming(from) ==
  /\ isInitialized
  /\ session < MaxCalls
  /\ CommitTwilio(attachConnection(Twilio))
  /\ LET W == receiveCall(Store, [ name |-> from, number |-> from,
                                    line1 |-> Undefined, line2 |-> Undefined,
                                    location |-> <<>> ])
     IN /\ Commit(W)
        /\ lookups' = lookups \cup { [ sess |-> W.session, dir |-> "in",
                                       number |-> from,
                                       issued |-> W.state ] }
  /\ UNCHANGED << server, pure, auth >>
  /\ UNCHANGED << now, isInitialized, dials >>

handleAcceptCall ==
  /\ IF isReady THEN CommitTwilio(twilioAcceptCall(Twilio))
               ELSE UNCHANGED << currentConnection, conns >>
  /\ Commit(acceptCall(Store))
  /\ UNCHANGED << server, pure, auth >>
  /\ UNCHANGED << now, isInitialized, dials, lookups >>

handleDeclineCall ==
  /\ IF isReady THEN CommitTwilio(twilioRejectCall(Twilio))
               ELSE UNCHANGED << currentConnection, conns >>
  /\ Commit(declineCall(Store))
  /\ UNCHANGED << server, pure, auth >>
  /\ UNCHANGED << now, isInitialized, dials, lookups >>

handleEndCall ==
  /\ IF isReady THEN CommitTwilio(twilioDisconnect(Twilio))
               ELSE UNCHANGED << currentConnection, conns >>
  /\ Commit(endCall(Store))
  /\ UNCHANGED << server, pure, auth >>
  /\ UNCHANGED << now, isInitialized, dials, lookups >>

\* handleDialCall up to `await twilioService.makeCall(...)`
handleDialCall(currentNumber) ==
  /\ session < MaxCalls
  /\ IF trimmedNonEmpty(currentNumber) /\ isReady
     THEN LET normalizedNumber == normalizePhoneNumber(currentNumber)
              W == initiateCall(Store, normalizedNumber, None)
          IN /\ Commit(W)
             /\ dials' = dials \cup { [ sess |-> W.session,
                                        number |-> normalizedNumber ] }
     ELSE /\ Commit(Store)
          /\ UNCHANGED dials
  /\ UNCHANGED << server, pure, auth >>
  /\ UNCHANGED << now, isInitialized, currentConnection, conns,
                  lookups >>

\* device.connect resolved: the rest of makeCall and of handleDialCall's try
makeCallResolved(d) ==
  /\ d \in dials
  /\ dials' = dials \ {d}
  /\ CommitTwilio(attachConnection(Twilio))
  /\ lookups' = lookups \cup { [ sess |-> d.sess, dir |-> "out",
                                 number |-> d.number, issued |-> state ] }
  /\ Commit(Store)
  /\ UNCHANGED << server, pure, auth >>
  /\ UNCHANGED << now, isInitialized >>

\* device.connect rejected: makeCall rethrows, handleDialCall's catch runs
makeCallRejected(d) ==
  /\ d \in dials
  /\ dials' = dials \ {d}
  /\ Commit(resetCall(Store))
  /\ UNCHANGED << server, pure, auth >>
  /\ UNCHANGED << now, isInitialized, currentConnection, conns,
                  lookups >>

\* the callback as it would be if its phase test were made when the lookup
\* was issued and its write when the lookup completed
lookupCallbackStaleCheck(W, l, customer) ==
  IF customer # None
       /\ IF l.dir = "in" THEN l.issued = "incoming"
                          ELSE l.issued \in {"outgoing", "active"}
       /\ W.caller # None
  THEN notify([W EXCEPT !.caller =
                 Some(enriched(The(W.caller),
                               The(formatCustomerInfo(customer))))])
  ELSE W

\* the .then callback of lookup l, given what the request resolved to
lookupCallback(W, l, customer) ==
  IF l.dir = "in" THEN incomingLookupDone(W, customer)
                  ELSE outgoingLookupDone(W, customer)

\* getCustomerByPhone resolved and its .then callback ran
lookupDone(l, customer) ==
  /\ l \in lookups
  /\ lookups' = lookups \ {l}
  /\ LET W == lookupCallback(Store, l, customer)
     IN Commit([W EXCEPT !.lastLookup =
                  Some([ sess |-> l.sess, dir |-> l.dir, issued |-> l.issued,
                         number |-> l.number,
                         at |-> state, match |-> customer # None,
                         applied |-> W.emitted # <<>>,
                         changed |-> W.caller # caller ])])
  /\ UNCHANGED << server, pure, auth >>
  /\ UNCHANGED << now, isInitialized, currentConnection, conns,
                  dials >>

OpenConns == { c \in 1..Len(conns) : conns[c] = "open" }

\* connection.on('accept') -> onConnected (which only logs)
onConnected(c) ==
  /\ c \in OpenConns
  /\ Commit(Store)
  /\ UNCHANGED << server, pure, auth >>
  /\ UNCHANGED << now, isInitialized, currentConnection, conns, dials,
                  lookups >>

\* connection.on('disconnect') / connection.on('reject') -> onDisconnected
onDisconnected(c) ==
  /\ c \in OpenConns
  /\ CommitTwilio(connectionClosed(Twilio, c))
  /\ Commit(endCall(Store))
  /\ UNCHANGED << server, pure, auth >>
  /\ UNCHANGED << now, isInitialized, dials, lookups >>

\* connection.on('error') of connection c, or device.on('error') (c = 0)
\* -> onError (which only logs and alerts)
onError(c) ==
  /\ isInitialized
  /\ c \in OpenConns \cup {0}
  /\ Commit(Store)
  /\ UNCHANGED << server, pure, auth >>
  /\ UNCHANGED << now, isInitialized, currentConnection, conns, dials,
                  lookups >>

\* ------------------------------------------------------------- timers
Due == { i \in 1..Len(timers) : timers[i].due <= now }

\* the due timer that fires next: earliest deadline, then scheduling order
IsNextTimer(i) ==
  /\ i \in Due
  /\ \A j \in Due : timers[j].due > timers[i].due
                     \/ (timers[j].due = timers[i].due /\ j >= i)

Without(W, i) ==
  [W EXCEPT !.timers = SubSeq(@, 1, i - 1) \o SubSeq(@, i + 1, Len(@))]

Rescheduled(W, i) == [W EXCEPT !.timers[i].due = @ + TickPeriod]

resetTimerFires(i) ==
  /\ IsNextTimer(i)
  /\ timers[i].kind = "reset"
  /\ Commit(resetCall(Without(Store, i)))
  /\ UNCHANGED << server, pure, auth >>
  /\ UNCHANGED << now, isInitialized, currentConnection, conns, dials,
                  lookups >>

simulateTimerFires(i) ==
  /\ IsNextTimer(i)
  /\ timers[i].kind = "simulate"
  /\ Commit(simulateConnectionFired(Without(Store, i)))
  /\ UNCHANGED << server, pure, auth >>
  /\ UNCHANGED << now, isInitialized, currentConnection, conns, dials,
                  lookups >>

intervalFires(i) ==
  /\ IsNextTimer(i)
  /\ timers[i].kind = "interval"
  /\ Commit(durationTick(Rescheduled(Store, i)))
  /\ UNCHANGED << server, pure, auth >>
  /\ UNCHANGED << now, isInitialized, currentConnection, conns, dials,
                  lookups >>

\* The clock is read only through timers (their deadlines, startTime and
\* duration), so it is advanced only while some timer is pending.
advanceTime ==
  /\ now < MaxTime
  /\ timers # <<>>
  /\ Due = {}
  /\ now' = now + 1
  /\ Commit(Store)
  /\ UNCHANGED << server, pure, auth >>
  /\ UNCHANGED << isInitialized, currentConnection, conns, dials,
                  lookups >>

Next ==
  \/ handleInitTwilio
  \/ \E from \in RingNumbers : onIncoming(from)
  \/ handleAcceptCall
  \/ handleDeclineCall
  \/ handleEndCall
  \/ \E currentNumber \in DialInputs : handleDialCall(currentNumber)
  \/ \E d \in dials : makeCallResolved(d)
  \/ \E d \in dials : makeCallRejected(d)
  \/ \E l \in lookups : \E customer \in Answers : lookupDone(l, customer)
  \/ \E c \in 1..Len(conns) : onConnected(c)
  \/ \E c \in 1..Len(conns) : onDisconnected(c)
  \/ \E c \in 0..Len(conns) : onError(c)
  \/ \E i \in 1..Len(timers) : resetTimerFires(i)
  \/ \E i \in 1..Len(timers) : simulateTimerFires(i)
  \/ \E i \in 1..Len(timers) : intervalFires(i)
  \/ advanceTime

Spec == Init /\ [][Next]_vars

\* ------------------------------------------------------------- server
\* The table is whatever was loaded into it and one request for
\* GET /api/customers/by-phone?phone=... has arrived; the handler reads the
\* table and writes nothing, so its answer depends on nothing else.  The
\* page is at rest.
ServerInit ==
  /\ PageInit
  /\ AuthInit
  /\ customers \in Directories
  /\ request \in { Some(phone) : phone \in Queries }
  /\ response = None
  /\ args = None
  /\ rets = <<>>

\* the handler answers the request
httpGetCustomerByPhone ==
  /\ request # None
  /\ response = None
  /\ LET phone == The(request)
     IN \E exact \in GetCustomerByPhone(customers, phone) :
          \E all \in GetAllCustomers(customers) :
            response' =
              Some(getCustomerByPhone(customers, phone, exact, all))
  /\ UNCHANGED << page, auth, pure, customers, request >>

ServerNext == httpGetCustomerByPhone

ServerSpec == ServerInit /\ [][ServerNext]_vars

\* ------------------------------------------- server normalize alone
\* normalizePhoneNumber of server/main.go applied to two strings, and once
\* more to its own first output.
NormalizeChars == {"+", "2", "7", " ", "-", "(", ")", "."}
Separators == {" ", "-", "(", ")", "."}
NormalizeInputs == UNION { [1..n -> NormalizeChars] : n \in 0..MaxLen }

NormalizeInit ==
  /\ PageInit
  /\ AuthInit
  /\ customers = <<>>
  /\ request = None
  /\ response = None
  /\ args \in { Some(<< x, y >>) : x, y \in NormalizeInputs }
  /\ rets = <<>>

normalizeBoth ==
  /\ args # None
  /\ rets = <<>>
  /\ rets' = << serverNormalizePhoneNumber(The(args)[1]),
                serverNormalizePhoneNumber(The(args)[2]) >>
  /\ UNCHANGED << page, auth, server, args >>

normalizeAgain ==
  /\ Len(rets) = 2
  /\ rets' = Append(rets, serverNormalizePhoneNumber(rets[1]))
  /\ UNCHANGED << page, auth, server, args >>

NormalizeNext == normalizeBoth \/ normalizeAgain

NormalizeSpec == NormalizeInit /\ [][NormalizeNext]_vars

\* ---------------------------------------------- lookup, end to end
\* A number is dialled (dir "out": handleDialCall normalises it first) or
\* received (dir "in": onIncoming passes connection.parameters.From as it
\* is); CustomerService.getCustomerByPhone fetches
\* /api/customers/by-phone?phone=<encodeURIComponent(number)>, the server
\* answers, and the promise settles.
Local0 == <<"0", "6", "7", "2", "9", "6", "6", "3", "6", "1">>
Bare27 == <<"2", "7", "6", "7", "2", "9", "6", "6", "3", "6", "1">>
Plus27 == <<"+">> \o Bare27
Plus27Spaced ==
  <<"+", "2", "7", " ", "6", "7", " ", "2", "9", "6", " ",
    "6", "3", "6", "1">>
Local0Spaced ==
  <<"0", "6", "7", " ", "2", "9", "6", " ", "6", "3", "6", "1">>

LookupNumbers == { Plus27Spaced, Plus27, Local0, Local0Spaced, <<"-">> }

LookupStoredPhones == { None, Some(Local0), Some(Plus27), Some(Local0Spaced) }

LookupDirectories ==
  UNION { [1..n -> [phone : LookupStoredPhones, created_at : 1..MaxStamp]] :
          n \in 0..MaxCustomers }

\* encodeURIComponent on the characters a number is made of: digits and
\* - ( ) . are left alone, "+" and " " are percent-encoded
RECURSIVE encodeURIComponent(_)
encodeURIComponent(s) ==
  IF s = <<>> THEN <<>>
  ELSE (IF Head(s) = "+" THEN <<"%", "2", "B">>
        ELSE IF Head(s) = " " THEN <<"%", "2", "0">>
        ELSE << Head(s) >>) \o encodeURIComponent(Tail(s))

\* r.URL.Query().Get("phone"): "+" is a space, %XX is the byte XX
RECURSIVE queryUnescape(_)
queryUnescape(s) ==
  IF s = <<>> THEN <<>>
  ELSE IF Head(s) = "+" THEN <<" ">> \o queryUnescape(Tail(s))
  ELSE IF Head(s) = "%" /\ Len(s) >= 3
  THEN (IF s[2] = "2" /\ s[3] = "B" THEN <<"+">>
        ELSE IF s[2] = "2" /\ s[3] = "0" THEN <<" ">>
        ELSE <<"?">>) \o queryUnescape(SubSeq(s, 4, Len(s)))
  ELSE << Head(s) >> \o queryUnescape(Tail(s))

\* What fetch() gives the client: a rejection (network error) or a response
\* with a status and a body; the body is None when it is not valid JSON.
networkError == [ kind |-> "rejected", status |-> 0, body |-> None ]

received(r, intact) ==
  [ kind |-> "response", status |-> r.status,
    body |-> IF intact
             THEN Some([ success |-> r.success, customer |-> r.customer ])
             ELSE None ]

\* the try block of CustomerService.getCustomerByPhone: a value it returns
\* or an exception it throws
getCustomerByPhoneTry(fetched) ==
  IF fetched.kind = "rejected"
  THEN [ thrown |-> TRUE, value |-> None, logged |-> "none" ]
  ELSE IF fetched.status \notin 200..299
  THEN [ thrown |-> FALSE, value |-> None, logged |-> "Failed to fetch" ]
  ELSE IF fetched.body = None
  THEN [ thrown |-> TRUE, value |-> None, logged |-> "none" ]
  ELSE LET data == The(fetched.body)
       IN IF data.success /\ data.customer # None
          THEN [ thrown |-> FALSE, value |-> data.customer,
                 logged |-> "none" ]
          ELSE [ thrown |-> FALSE, value |-> None, logged |-> "none" ]

\* getCustomerByPhone as it would be without its catch block
clientGetCustomerByPhoneNoCatch(fetched) ==
  LET t == getCustomerByPhoneTry(fetched)
  IN [ settled |-> IF t.thrown THEN "rejected" ELSE "resolved",
       value |-> t.value, logged |-> t.logged ]

\* CustomerService.getCustomerByPhone: how its promise settles
clientGetCustomerByPhone(fetched) ==
  LET t == getCustomerByPhoneTry(fetched)
  IN IF t.thrown
     THEN [ settled |-> "resolved", value |-> None,
            logged |-> "Error fetching" ]
     ELSE [ settled |-> "resolved", value |-> t.value, logged |-> t.logged ]

LookupInit ==
  /\ PageInit
  /\ AuthInit
  /\ customers \in LookupDirectories
  /\ request = None
  /\ response = None
  /\ args \in { Some([ dir |-> d, number |-> n ]) :
                d \in {"in", "out"}, n \in LookupNumbers }
  /\ rets = <<>>

\* the number getCustomerByPhone is called with
lookupNumber(a) ==
  IF a.dir = "out" THEN normalizePhoneNumber(a.number) ELSE a.number

\* the request reaches the server
fetchSent ==
  /\ args # None /\ request = None /\ rets = <<>>
  /\ request' =
       Some(queryUnescape(encodeURIComponent(lookupNumber(The(args)))))
  /\ UNCHANGED << page, auth, customers, response, args, rets >>

\* fetch() rejects: the request never gets an answer
fetchFailed ==
  /\ args # None /\ response = None /\ rets = <<>>
  /\ rets' = << clientGetCustomerByPhone(networkError) >>
  /\ UNCHANGED << page, auth, server, args >>

\* the response arrives, its body intact or not
responseReceived ==
  /\ response # None /\ rets = <<>>
  /\ \E intact \in BOOLEAN :
       rets' = << clientGetCustomerByPhone(received(The(response), intact)) >>
  /\ UNCHANGED << page, auth, server, args >>

LookupNext ==
  \/ fetchSent
  \/ fetchFailed
  \/ httpGetCustomerByPhone
  \/ responseReceived

LookupSpec == LookupInit /\ [][LookupNext]_vars

\* ------------------------------------- client normalizePhoneNumber alone
\* Every short text over the characters the rules distinguish, and the
\* three numbers of the function's comment.
MaxTyped == 3

TypedChars == {"0", "2", "7", "5", "+", " ", "-"}

TypedInputs ==
  UNION { [1..n -> TypedChars] : n \in 0..MaxTyped }
    \cup { Local0, Bare27, Plus27Spaced }

ClientNormalizeInit ==
  /\ PageInit
  /\ AuthInit
  /\ customers = <<>>
  /\ request = None
  /\ response = None
  /\ args \in { Some(<< x >>) : x \in TypedInputs }
  /\ rets = <<>>

clientNormalizeOnce ==
  /\ args # None /\ rets = <<>>
  /\ rets' = << normalizePhoneNumber(The(args)[1]) >>
  /\ UNCHANGED << page, auth, server, args >>

clientNormalizeAgain ==
  /\ Len(rets) = 1
  /\ rets' = Append(rets, normalizePhoneNumber(rets[1]))
  /\ UNCHANGED << page, auth, server, args >>

ClientNormalizeNext == clientNormalizeOnce \/ clientNormalizeAgain

ClientNormalizeSpec == ClientNormalizeInit /\ [][ClientNormalizeNext]_vars

\* ------------------------------------------------- formatDuration alone
MaxSeconds == 6100

DigitChars == <<"0", "1", "2", "3", "4", "5", "6", "7", "8", "9">>

\* Number.prototype.toString() of a non-negative integer
RECURSIVE toString(_)
toString(n) ==
  IF n < 10 THEN << DigitChars[n + 1] >>
  ELSE toString(n \div 10) \o << DigitChars[(n % 10) + 1] >>

\* String.prototype.padStart(targetLength, padString) with a one-character
\* padString
RECURSIVE padStart(_, _, _)
padStart(s, targetLength, padString) ==
  IF Len(s) >= targetLength THEN s
  ELSE padStart(padString \o s, targetLength, padString)

\* formatDuration with the minutes wrapped at the hour
formatDurationHourRollover(seconds) ==
  LET mins == (seconds \div 60) % 60
      secs == seconds % 60
  IN padStart(toString(mins), 2, <<"0">>) \o <<":">>
       \o padStart(toString(secs), 2, <<"0">>)

\* ScreenController.formatDuration
formatDuration(seconds) ==
  LET mins == seconds \div 60
      secs == seconds % 60
  IN padStart(toString(mins), 2, <<"0">>) \o <<":">>
       \o padStart(toString(secs), 2, <<"0">>)

FormatInit ==
  /\ PageInit
  /\ AuthInit
  /\ customers = <<>>
  /\ request = None
  /\ response = None
  /\ args \in { Some(seconds) : seconds \in 0..MaxSeconds }
  /\ rets = <<>>

formatDurationApplied ==
  /\ args # None /\ rets = <<>>
  /\ rets' = << formatDuration(The(args)) >>
  /\ UNCHANGED << page, auth, server, args >>

FormatNext == formatDurationApplied

FormatSpec == FormatInit /\ [][FormatNext]_vars

\* ------------------------------------------- server: users and sessions
\* The routes /api/auth/register, /login, /logout, /me, /api/twilio/token
\* and /api/customers/by-phone of one server, each request carrying a
\* session_id cookie or none.
MaxSessions == 2
MaxClock == 2
MaxPending == 2

\* 7 * 24 * time.Hour, the unit the server clock is counted in
SessionTtl == 1

Emails == {"", "a", "b"}
AgentIds == {"x", "y"}
Passwords == {"p", "q"}

RegisterRequests == [ email : Emails, agent_id : AgentIds, password : {"p"} ]

\* a request's session_id cookie: absent, a value generateSessionID never
\* returned (0), or a generated id
Cookies == {None} \cup { Some(id) : id \in 0..MaxSessions }

LookupPhones == { <<"2", "7">> }

AuthCustomers == << [ phone |-> Some(<<"2", "7">>), created_at |-> 1 ] >>

GenerateFromPassword(password) == << "bcrypt", password >>

CompareHashAndPassword(hash, password) == hash = << "bcrypt", password >>

\* SELECT * FROM users WHERE email = ?  (:one)
GetUserByEmail(us, email) ==
  LET hit == { i \in 1..Len(us) : us[i].email = email }
  IN IF hit = {} THEN None
     ELSE Some(CHOOSE i \in hit : \A j \in hit : i <= j)

\* SELECT * FROM users WHERE agent_id = ?  (:one)
GetUserByAgentID(us, agent_id) ==
  LET hit == { i \in 1..Len(us) : us[i].agent_id = agent_id }
  IN IF hit = {} THEN None
     ELSE Some(CHOOSE i \in hit : \A j \in hit : i <= j)

\* INSERT INTO users as it would be without the UNIQUE constraints
CreateUserNoUnique(us, row) == [ err |-> FALSE, users |-> Append(us, row) ]

\* INSERT INTO users ... RETURNING *, under UNIQUE(email), UNIQUE(agent_id)
CreateUser(us, row) ==
  IF \E i \in 1..Len(us) :
       us[i].email = row.email \/ us[i].agent_id = row.agent_id
  THEN [ err |-> TRUE, users |-> us ]
  ELSE [ err |-> FALSE, users |-> Append(us, row) ]

\* SELECT * FROM sessions WHERE id = ?  (:one; id is the primary key)
GetSession(ss, id) == { x \in ss : x.id = id }

\* INSERT INTO sessions (id, user_id, expires_at)
CreateSession(ss, id, user_id, expires_at) ==
  ss \cup { [ id |-> id, user_id |-> user_id, expires_at |-> expires_at ] }

\* DELETE FROM sessions WHERE id = ?
DeleteSession(ss, id) == { x \in ss : x.id # id }

Reply(op, cookie, status, user, sid, customer) ==
  Some([ op |-> op, cookie |-> cookie, status |-> status, user |-> user,
         session |-> sid, customer |-> customer ])

\* the session check as it would be without the comparison with time.Now()
sessionUserNoExpiry(ss, us, t, cookie, getSessionOk, getUserOk) ==
  IF cookie = None \/ ~getSessionOk \/ GetSession(ss, The(cookie)) = {}
  THEN [ status |-> 401, sessions |-> ss, user |-> None ]
  ELSE LET found == CHOOSE x \in GetSession(ss, The(cookie)) : TRUE
       IN IF ~getUserOk \/ found.user_id \notin 1..Len(us)
          THEN [ status |-> 404, sessions |-> ss, user |-> None ]
          ELSE [ status |-> 200, sessions |-> ss,
                 user |-> Some(found.user_id) ]

\* the session check getCurrentUser and getTwilioToken both start with:
\* the status it ends in, the sessions table it leaves and the user it finds
sessionUser(ss, us, t, cookie, getSessionOk, getUserOk) ==
  IF cookie = None
  THEN [ status |-> 401, sessions |-> ss, user |-> None ]
  ELSE IF ~getSessionOk \/ GetSession(ss, The(cookie)) = {}
  THEN [ status |-> 401, sessions |-> ss, user |-> None ]
  ELSE LET found == CHOOSE x \in GetSession(ss, The(cookie)) : TRUE
       IN IF t > found.expires_at
          THEN [ status |-> 401, sessions |-> DeleteSession(ss, found.id),
                 user |-> None ]
          ELSE IF ~getUserOk \/ found.user_id \notin 1..Len(us)
          THEN [ status |-> 404, sessions |-> ss, user |-> None ]
          ELSE [ status |-> 200, sessions |-> ss,
                 user |-> Some(found.user_id) ]

\* what the two queries of the session check may do
DbOutcomes == {"ok", "GetSession fails", "GetUserByID fails"}

AuthServerInit ==
  /\ PageInit
  /\ AuthInit
  /\ customers = AuthCustomers
  /\ request = None
  /\ response = None
  /\ args = None
  /\ rets = <<>>

\* Server.register up to its two existence checks
registerChecked(req) ==
  /\ IF req.email = ""
     THEN /\ reply' = Reply("register", None, 400, None, None, None)
          /\ UNCHANGED pending
     ELSE IF GetUserByEmail(users, req.email) # None
     THEN /\ reply' = Reply("register", None, 400, None, None, None)
          /\ UNCHANGED pending
     ELSE IF GetUserByAgentID(users, req.agent_id) # None
     THEN /\ reply' = Reply("register", None, 400, None, None, None)
          /\ UNCHANGED pending
     ELSE /\ Len(pending) < MaxPending
          /\ pending' = Append(pending, req)
          /\ UNCHANGED reply
  /\ UNCHANGED << users, sessions, minted, clock >>
  /\ UNCHANGED << page, server, pure >>

\* the rest of Server.register: hash, CreateUser, CreateSession (which
\* succeeds or fails), answer
registerInserted(i) ==
  /\ i \in 1..Len(pending)
  /\ pending' = SubSeq(pending, 1, i - 1)
                  \o SubSeq(pending, i + 1, Len(pending))
  /\ LET req == pending[i]
         made == CreateUser(users,
                   [ email |-> req.email, agent_id |-> req.agent_id,
                     password_hash |-> GenerateFromPassword(req.password) ])
     IN IF made.err
        THEN /\ reply' = Reply("register", None, 500, None, None, None)
             /\ UNCHANGED << users, sessions, minted >>
        ELSE /\ minted < MaxSessions
             /\ users' = made.users
             /\ minted' = minted + 1
             /\ \/ /\ sessions' = CreateSession(sessions, minted + 1,
                                              Len(made.users),
                                              clock + SessionTtl)
                   /\ reply' = Reply("register", None, 200,
                                     Some(Len(made.users)),
                                     Some(minted + 1), None)
                \/ /\ reply' = Reply("register", None, 500, None, None,
                                     None)
                   /\ UNCHANGED sessions
  /\ UNCHANGED clock
  /\ UNCHANGED << page, server, pure >>

\* Server.login; CreateSession succeeds or fails
login(email, password) ==
  /\ LET user == GetUserByEmail(users, email)
     IN IF email = ""
        THEN /\ reply' = Reply("login", None, 400, None, None, None)
             /\ UNCHANGED << sessions, minted >>
        ELSE IF user = None
        THEN /\ reply' = Reply("login", None, 401, None, None, None)
             /\ UNCHANGED << sessions, minted >>
        ELSE IF ~CompareHashAndPassword(users[The(user)].password_hash,
                                        password)
        THEN /\ reply' = Reply("login", None, 401, None, None, None)
             /\ UNCHANGED << sessions, minted >>
        ELSE /\ minted < MaxSessions
             /\ minted' = minted + 1
             /\ \/ /\ sessions' = CreateSession(sessions, minted + 1,
                                              The(user), clock + SessionTtl)
                   /\ reply' = Reply("login", None, 200, user,
                                     Some(minted + 1), None)
                \/ /\ reply' = Reply("login", None, 500, None, None, None)
                   /\ UNCHANGED sessions
  /\ UNCHANGED << users, clock, pending >>
  /\ UNCHANGED << page, server, pure >>

\* Server.logout
logout(cookie) ==
  /\ sessions' = IF cookie # None
                 THEN DeleteSession(sessions, The(cookie))
                 ELSE sessions
  /\ reply' = Reply("logout", cookie, 200, None, None, None)
  /\ UNCHANGED << users, minted, clock, pending >>
  /\ UNCHANGED << page, server, pure >>

\* Server.getCurrentUser, given what its queries do
getCurrentUser(cookie, db) ==
  /\ LET a == sessionUser(sessions, users, clock, cookie,
                            db # "GetSession fails",
                            db # "GetUserByID fails")
     IN /\ sessions' = a.sessions
        /\ reply' = Reply("getCurrentUser", cookie, a.status, a.user,
                          None, None)
  /\ UNCHANGED << users, minted, clock, pending >>
  /\ UNCHANGED << page, server, pure >>

\* Server.getTwilioToken, given what its queries do; configured: the
\* TWILIO_* variables are set and the token can be signed
getTwilioToken(cookie, db) ==
  /\ \E configured \in BOOLEAN :
       LET a == sessionUser(sessions, users, clock, cookie,
                            db # "GetSession fails",
                            db # "GetUserByID fails")
       IN /\ (db # "ok" => configured)
          /\ sessions' = a.sessions
          /\ reply' =
               IF a.status = 200 /\ ~configured
               THEN Reply("getTwilioToken", cookie, 500, None, None, None)
               ELSE Reply("getTwilioToken", cookie, a.status, a.user, None,
                          None)
  /\ UNCHANGED << users, minted, clock, pending >>
  /\ UNCHANGED << page, server, pure >>

\* Server.getCustomerByPhone answering a request that carries a cookie
getCustomerByPhoneWithCookie(cookie, phone) ==
  /\ \E exact \in GetCustomerByPhone(customers, phone) :
       \E all \in GetAllCustomers(customers) :
         LET r == getCustomerByPhone(customers, phone, exact, all)
         IN reply' = Reply("getCustomerByPhone", cookie, r.status, None,
                           None, r.customer)
  /\ UNCHANGED << users, sessions, minted, clock, pending >>
  /\ UNCHANGED << page, server, pure >>

\* time passes on the server
clockTick ==
  /\ clock < MaxClock
  /\ clock' = clock + 1
  /\ UNCHANGED << users, sessions, minted, pending, reply >>
  /\ UNCHANGED << page, server, pure >>

AuthNext ==
  \/ \E req \in RegisterRequests : registerChecked(req)
  \/ \E i \in 1..MaxPending : registerInserted(i)
  \/ \E email \in Emails : \E password \in Passwords : login(email, password)
  \/ \E cookie \in Cookies : logout(cookie)
  \/ \E cookie \in Cookies : \E db \in DbOutcomes :
       getCurrentUser(cookie, db)
  \/ \E cookie \in Cookies : \E db \in DbOutcomes :
       getTwilioToken(cookie, db)
  \/ \E cookie \in Cookies : \E phone \in LookupPhones :
       getCustomerByPhoneWithCookie(cookie, phone)
  \/ clockTick

AuthSpec == AuthServerInit /\ [][AuthNext]_vars

\* ===================================================================
\* Claims
\* ===================================================================
IntervalPending == \E i \in 1..Len(timers) : timers[i].kind = "interval"

\* C1 (as stated): caller is non-null whenever the phase is incoming,
\* outgoing or active, and null whenever the phase is idle or ended.
C1_CallerNullWhenIdleOrEnded ==
  /\ state \in Live => caller # None
  /\ state \in {"idle", "ended"} => caller = None

\* C1 (amended): caller is non-null whenever the phase is incoming, outgoing,
\* active or ended (declineCall and endCall keep it), and null whenever the
\* phase is idle.
C1_CallerNullExactlyWhenIdle ==
  /\ state \in Live \cup {"ended"} => caller # None
  /\ state = "idle" => caller = None

C1_EndedKeepsCaller == state = "ended" /\ caller # None

\* C2: a lookup result issued for one session is never applied to a newer
\* session: when the lookup completes after its own session ended (that
\* session's grace-delay reset is scheduled) and a newer session was created,
\* the newer session's caller is left unchanged.
C2_NoCrossSessionLeak ==
  \A x \in lastLookup :
    ( /\ x.sess # session
      /\ \E i \in 1..Len(timers) :
           timers[i].kind = "reset" /\ timers[i].sess = x.sess )
    => ~x.changed

\* C3: a lookup (inbound or outbound) that completes with a match while the
\* phase is ended or idle does not change caller and notifies nobody.
C3_StaleMatchDiscarded ==
  \A x \in lastLookup :
    (x.match /\ x.at \in {"ended", "idle"}) => (~x.changed /\ ~x.applied)

C3_MatchArrivedAfterEnd ==
  \E x \in lastLookup :
    x.match /\ x.at = "ended" /\ x.sess = session /\ state = "ended"

\* C4: whenever the phase is not active, no duration interval is scheduled.
C4_NoTickerOutsideActive == state # "active" => ~IntervalPending

\* C5: a grace-delay reset never fires on a session that is incoming,
\* outgoing or active.
C5_ResetOnlyFromEnded ==
  [][\A i \in 1..Len(timers) : resetTimerFires(i) => state \notin Live]_vars

\* C6: when the phase is incoming and the transport delivers the disconnect
\* or reject event of the ringing connection, the session moves to ended.
C6_RemoteCancelEndsIncoming ==
  [][\A c \in 1..Len(conns) :
       (onDisconnected(c) /\ state = "incoming" /\ currentConnection = Some(c))
         => state' = "ended"]_vars

\* C7: the session moves from outgoing to active only in the step in which
\* the transport reports that the remote party answered.
C7_ActiveOnlyOnAnswer ==
  [][(state = "outgoing" /\ state' = "active")
       => \E c \in 1..Len(conns) : onConnected(c)]_vars

\* C8: a failed outbound connection attempt while its session is live moves
\* the session to ended and the listener receives a snapshot with phase ended.
C8_TransportErrorEndsSession ==
  [][\A d \in dials :
       (makeCallRejected(d) /\ d.sess = session /\ state \in Live)
         => (state' = "ended"
             /\ screen' # None /\ The(screen').state = "ended")]_vars

\* C9 (as stated, on the lookup's own session): a match is applied only if
\* the phase at completion equals the phase at which the lookup was issued.
C9_AppliedOnlyIfPhaseUnchanged ==
  \A x \in lastLookup :
    (x.match /\ x.applied /\ x.sess = session) => x.at = x.issued

\* C9 (amended): a lookup result is applied only if it is a match and the
\* phase at completion is one its callback accepts: incoming for an inbound
\* lookup, outgoing or active for an outbound lookup; whenever caller
\* changes, the result was applied.
C9_AppliedOnlyInAcceptedPhase ==
  \A x \in lastLookup :
    /\ x.applied => /\ x.match
                    /\ \/ x.dir = "in" /\ x.at = "incoming"
                       \/ x.dir = "out" /\ x.at \in {"outgoing", "active"}
    /\ x.changed => x.applied

C9_OutboundAppliedAfterAnswer ==
  \E x \in lastLookup :
    /\ x.dir = "out" /\ x.issued = "outgoing" /\ x.at = "active"
    /\ x.sess = session /\ x.match /\ x.applied

\* C10: a lookup that resolves to null leaves caller and the phase unchanged
\* and notifies nobody, in whatever phase it arrives.
C10_NullResultChangesNothing ==
  \A x \in lastLookup :
    ~x.match => (~x.changed /\ ~x.applied /\ state = x.at)

C10_NullArrivedWhileActive ==
  \E x \in lastLookup :
    /\ ~x.match /\ x.dir = "out" /\ x.at = "active" /\ x.sess = session
    /\ caller = Some([ name |-> x.number, number |-> x.number,
                       line1 |-> <<>>, line2 |-> <<>>,
                       location |-> Undefined ])

\* C11: a session that enters ended (declineCall from incoming, endCall from
\* active or outgoing) has its reset scheduled 1 second later when an outgoing
\* call was cancelled and 2 seconds later otherwise; unless a new call
\* arrives it leaves ended only when that reset fires, and it is then idle
\* with caller null, duration 0 and startTime null.
C11_IdleAfterGraceDelay ==
  [][ /\ (state \in Live /\ state' = "ended")
         => \E i \in 1..Len(timers') :
              timers'[i] = [ kind |-> "reset", sess |-> session,
                             due |-> now + IF state = "outgoing" THEN 1
                                           ELSE 2 ]
      /\ (state = "ended" /\ state' # "ended" /\ session' = session)
         => /\ \E i \in 1..Len(timers) :
                 /\ resetTimerFires(i)
                 /\ timers[i].sess = session
                 /\ timers[i].due = now
            /\ state' = "idle"
            /\ caller' = None /\ duration' = 0 /\ startTime' = None ]_vars

\* C12: while the phase is active every tick sets duration to the whole
\* seconds elapsed since startTime; while the session stays out of active,
\* duration never increases.
C12_DurationFrozenOutsideActive ==
  [][ /\ \A i \in 1..Len(timers) :
           (intervalFires(i) /\ state = "active")
             => duration' = now - The(startTime)
      /\ (state # "active" /\ state' # "active") => duration' <= duration
    ]_vars

\* C13: handleDialCall with an invalid number (empty, whitespace only, or
\* containing no digit) leaves the CallStore unchanged, notifies nobody,
\* schedules no timer and asks the transport for no call.
C13_InvalidNumberRejected ==
  [][\A currentNumber \in DialInputs :
       ( /\ handleDialCall(currentNumber)
         /\ \/ ~trimmedNonEmpty(currentNumber)
            \/ Filter(currentNumber, Digits) = <<>> )
         => UNCHANGED << state, caller, duration, startTime, session,
                         timers, dials, screen >>]_vars

C15_AcceptStartsCall ==
  [][ /\ (handleAcceptCall /\ state = "incoming")
         => /\ state' = "active"
            /\ startTime' = Some(now)
            /\ duration' = 0
            /\ caller' = caller
            /\ durationTimer' = Some(session)
            /\ \E i \in 1..Len(timers') :
                 timers'[i] = [ kind |-> "interval", sess |-> session,
                                due |-> now + 1 ]
      /\ \A i \in 1..Len(timers) :
           (intervalFires(i) /\ state = "active" /\ timers[i].sess = session)
             => /\ state' = "active"
                /\ duration' = now - The(startTime)
                /\ duration' >= 1
                /\ duration' >= duration ]_vars

C15_AcceptedCallCounts ==
  /\ state = "active"
  /\ caller # None /\ The(caller).number \in RingNumbers
  /\ startTime = Some(1) /\ now = 3 /\ duration = 2

\* C16: endCall, from the end button or from a remote disconnect event,
\* moves an active session to ended with no duration ticker left scheduled,
\* and moves an outgoing session to ended; caller and duration stay as they
\* were.
C16_EndCallEndsSession ==
  [][(handleEndCall \/ \E c \in 1..Len(conns) : onDisconnected(c))
       => /\ state = "active"
               => /\ state' = "ended"
                  /\ caller' = caller /\ duration' = duration
                  /\ durationTimer' = None
                  /\ \A i \in 1..Len(timers') : timers'[i].kind # "interval"
          /\ state = "outgoing"
               => /\ state' = "ended"
                  /\ caller' = caller /\ duration' = duration]_vars

\* C17: every step that changes the phase, the caller or the duration
\* delivers to the subscribed listener, last, a snapshot whose phase, caller
\* and duration (and startTime) are the store's state right after the step.
C17_ChangeIsNotified ==
  [][<< state, caller, duration >>' # << state, caller, duration >>
       => screen' = Some([ state |-> state', caller |-> caller',
                           duration |-> duration',
                           startTime |-> startTime' ])]_vars

C17_TickAndEnrichmentShown ==
  /\ state = "active" /\ duration = 2
  /\ caller # None /\ The(caller).name = <<"A", " ", "B">>
  /\ screen = Some(getState(Store))

\* ------------------------------------------------- claims on ServerSpec
\* some customer's stored phone is the query, character for character
StoredVerbatim(phone) ==
  \E i \in 1..Len(customers) : customers[i].phone = Some(phone)

\* customer i has a phone whose normalised form is the normalised query
NormalisedMatch(i, phone) ==
  /\ customers[i].phone # None
  /\ serverNormalizePhoneNumber(The(customers[i].phone))
       = serverNormalizePhoneNumber(phone)

\* C18 (as stated): whenever the query equals some customer's stored phone
\* verbatim and the database answers, a customer is returned and its stored
\* phone is the query exactly.
C18_VerbatimQueryReturnsExactEntry ==
  \A phone \in request : \A r \in response :
    (StoredVerbatim(phone) /\ r.status # 500)
      => (r.customer # None /\ The(r.customer).phone = Some(phone))

\* C18 (amended): whenever a non-empty query equals some customer's stored
\* phone verbatim and the database answers, a customer is returned and its
\* stored phone is the query exactly, even when customers created later
\* normalise to the same number; the empty query is answered 400 with no
\* customer.
C18_NonEmptyVerbatimQueryReturnsExactEntry ==
  \A phone \in request : \A r \in response :
    /\ (phone # <<>> /\ StoredVerbatim(phone) /\ r.status # 500)
         => /\ r.status = 200 /\ r.success
            /\ r.customer # None
            /\ The(r.customer).phone = Some(phone)
            /\ The(r.customer)
                 = customerRow(customers, The(r.customer).id)
    /\ phone = <<>> => (r.status = 400 /\ r.customer = None)

C18_ExactBeatsLaterNormalised ==
  \E phone \in request : \E r \in response :
    /\ r.customer # None
    /\ The(r.customer).phone = Some(phone)
    /\ \E i \in 1..Len(customers) :
         /\ NormalisedMatch(i, phone)
         /\ customers[i].phone # Some(phone)
         /\ customers[i].created_at > The(r.customer).created_at

\* what C19 promises for query phone when the answer is r: the newest
\* customer (none with a normalised match is newer) whose normalised stored
\* phone is the normalised query, or not-found when there is none
FallbackAnswer(phone, r) ==
  IF \E i \in 1..Len(customers) : NormalisedMatch(i, phone)
  THEN /\ r.status = 200 /\ r.success
       /\ r.customer # None
       /\ LET k == The(r.customer).id
          IN /\ k \in 1..Len(customers)
             /\ The(r.customer) = customerRow(customers, k)
             /\ NormalisedMatch(k, phone)
             /\ \A i \in 1..Len(customers) :
                  NormalisedMatch(i, phone)
                    => customers[i].created_at <= customers[k].created_at
  ELSE r.status = 200 /\ ~r.success /\ r.customer = None

\* C19 (as stated): whenever no stored phone equals the query verbatim and
\* the database answers, the result is the first customer by created_at
\* descending whose normalised stored phone equals the normalised query,
\* customers without a phone being skipped, and not-found when none match.
C19_FallbackReturnsNewestNormalisedMatch ==
  \A phone \in request : \A r \in response :
    (~StoredVerbatim(phone) /\ r.status # 500) => FallbackAnswer(phone, r)

\* C19 (amended): the same for every non-empty query; the empty query is
\* answered 400 with no customer.
C19_NonEmptyFallbackReturnsNewestNormalisedMatch ==
  \A phone \in request : \A r \in response :
    /\ (phone # <<>> /\ ~StoredVerbatim(phone) /\ r.status # 500)
         => FallbackAnswer(phone, r)
    /\ phone = <<>> => (r.status = 400 /\ r.customer = None)

C19_NewestOfSeveralMatches ==
  \E phone \in request : \E r \in response :
    /\ ~StoredVerbatim(phone)
    /\ r.customer # None
    /\ NormalisedMatch(The(r.customer).id, phone)
    /\ \E i \in 1..Len(customers) :
         /\ NormalisedMatch(i, phone)
         /\ customers[i].created_at < The(r.customer).created_at

\* C20: the normalised form the server computes consists only of decimal
\* digits and at most one "+", and a "+" occurs only as its first character.
C20_OnlyDigitsAndOneLeadingPlus ==
  \A r \in response : \A n \in r.normalizedPhone :
    \A k \in 1..Len(n) :
      /\ n[k] \in Digits \cup {"+"}
      /\ n[k] = "+" => k = 1

\* -------------------------------------------- claims on NormalizeSpec
\* C21: the server's normalize is idempotent, its output has the digits of
\* the input in their original order, and two strings that become equal
\* once spaces, hyphens, parentheses and dots are removed have the same
\* output.
C21_NormalizeIdempotentOrderPreserving ==
  \A a \in args :
    /\ Len(rets) >= 2
         => /\ Filter(rets[1], Digits) = Filter(a[1], Digits)
            /\ Filter(rets[2], Digits) = Filter(a[2], Digits)
            /\ (Filter(a[1], NormalizeChars \ Separators)
                  = Filter(a[2], NormalizeChars \ Separators))
                 => rets[1] = rets[2]
    /\ Len(rets) = 3 => rets[3] = rets[1]

C21_SeparatorsOnlyDiffer ==
  /\ args = Some(<< <<"2", ".">>, <<"(", "2">> >>)
  /\ Len(rets) = 3
  /\ rets[1] = <<"2">> /\ rets[2] = <<"2">> /\ rets[3] = <<"2">>

\* ---------------------------------------------- claims on LookupSpec
\* C22: a lookup for the dialled or received number "+27 67 296 6361", when
\* a customer is stored with phone "0672966361" and nothing fails on the
\* way, resolves to a customer stored with that phone.
C22_CrossFormatResolves ==
  \A a \in args : \A r \in response :
    ( /\ a.number = Plus27Spaced
      /\ \E i \in 1..Len(customers) : customers[i].phone = Some(Local0)
      /\ r.status # 500
      /\ rets # <<>> /\ rets[1].logged = "none" )
      => /\ rets[1].value # None
         /\ The(rets[1].value).phone = Some(Local0)

\* C23: a lookup never fails past the directory client.  The server answers
\* a query that matches no customer with status 200 and success = FALSE
\* (never an error status), and getCustomerByPhone always resolves: to the
\* customer of a successful answer, and to null on a non-OK status, a
\* network error, a malformed body or a not-found answer.
C23_LookupNeverRejects ==
  /\ \A r \in response :
       (r.normalizedPhone # None /\ r.customer = None /\ r.status # 500)
         => r.status = 200 /\ ~r.success
  /\ \A i \in 1..Len(rets) :
       /\ rets[i].settled = "resolved"
       /\ rets[i].value # None
            => /\ rets[i].logged = "none"
               /\ \E r \in response :
                    r.status = 200 /\ r.success /\ r.customer = rets[i].value
       /\ ( \/ response = None
            \/ rets[i].logged # "none"
            \/ \E r \in response : ~r.success \/ r.customer = None )
            => rets[i].value = None

\* a not-found answer was resolved to null without anything being logged
C23_NotFoundResolvedNull ==
  /\ response # None
  /\ The(response).status = 200 /\ ~The(response).success
  /\ rets = << [ settled |-> "resolved", value |-> None, logged |-> "none" ] >>

\* ------------------------------------ claims on ClientNormalizeSpec
\* C24: the client's normalizePhoneNumber keeps only digits and "+", in
\* order; a result never starts with "0" or with "27": a leading "0" of
\* the cleaned text has become "+27" and a leading "27" has become "+27";
\* any other cleaned text is returned as it is.  "0672966361",
\* "27672966361" and "+27 67 296 6361" all give "+27672966361", and
\* normalising a result again changes nothing.
C24_ClientNormalizeCanonical ==
  \A a \in args :
    LET cleaned == Filter(a[1], Digits \cup {"+"})
    IN /\ Len(rets) >= 1 =>
            /\ \A i \in 1..Len(rets[1]) : rets[1][i] \in Digits \cup {"+"}
            /\ ~startsWith(rets[1], <<"0">>)
            /\ ~startsWith(rets[1], <<"2", "7">>)
            /\ (cleaned # <<>> /\ cleaned[1] = "0")
                 => rets[1] = <<"+", "2", "7">> \o Tail(cleaned)
            /\ (Len(cleaned) >= 2 /\ cleaned[1] = "2" /\ cleaned[2] = "7")
                 => rets[1] = <<"+">> \o cleaned
            /\ ( /\ ~(cleaned # <<>> /\ cleaned[1] = "0")
                 /\ ~(Len(cleaned) >= 2 /\ cleaned[1] = "2"
                        /\ cleaned[2] = "7") )
                 => rets[1] = cleaned
            /\ a[1] \in { Local0, Bare27, Plus27Spaced } => rets[1] = Plus27
       /\ Len(rets) = 2 => rets[2] = rets[1]

\* the bare international form got its "+" and is then left alone
C24_Bare27GetsPlus ==
  args = Some(<< Bare27 >>) /\ rets = << Plus27, Plus27 >>

\* ------------------------------------------------ claims on FormatSpec
\* the number a string of decimal digits denotes
RECURSIVE ToNat(_)
ToNat(s) ==
  IF s = <<>> THEN 0
  ELSE 10 * ToNat(SubSeq(s, 1, Len(s) - 1))
         + (CHOOSE d \in 0..9 : DigitChars[d + 1] = s[Len(s)])

\* C25: for every whole number of seconds s >= 0 the text of formatDuration
\* is M ":" S where S is exactly two digits denoting a number below 60, M
\* is at least two digits, longer than two only without a leading zero,
\* and 60 * M + S = s; so the minutes are floor(s / 60), not capped at 59
\* or 99, and the seconds are s mod 60.
C25_FormatDurationMinutesSeconds ==
  \A s \in args : \A i \in 1..Len(rets) :
    LET r == rets[i]
        k == Len(r) - 2
        M == SubSeq(r, 1, k - 1)
        S == SubSeq(r, k + 1, Len(r))
    IN /\ k >= 3
       /\ r[k] = ":"
       /\ \A j \in 1..Len(r) : j # k => r[j] \in Digits
       /\ Len(M) > 2 => M[1] # "0"
       /\ ToNat(S) < 60
       /\ 60 * ToNat(M) + ToNat(S) = s

\* one hundred minutes are shown with three minute digits
C25_HundredMinutes ==
  args = Some(6000) /\ rets = << <<"1", "0", "0", ":", "0", "0">> >>

\* ---------------------------------------- further claims on Spec
\* C26: a ring or a dial that arrives while the phase is incoming, outgoing
\* or active creates no session: it leaves the phase and the caller of the
\* live session as they are.
C26_LiveSessionNotReplaced ==
  [][( /\ state \in Live
        /\ \/ \E from \in RingNumbers : onIncoming(from)
           \/ \E currentNumber \in DialInputs : handleDialCall(currentNumber) )
       => (state' = state /\ caller' = caller /\ session' = session)]_vars

\* C27: the disconnect or reject event of a connection other than the one
\* TwilioService currently holds leaves currentConnection and the phase of
\* the session as they are.
C27_StaleDisconnectIgnored ==
  [][\A c \in 1..Len(conns) :
       (onDisconnected(c) /\ currentConnection # None
          /\ currentConnection # Some(c))
         => currentConnection' = currentConnection /\ state' = state]_vars

\* C28: the connection-establishment timer of one outgoing session never
\* moves another session to active.
C28_SimulateTimerOwnSessionOnly ==
  [][\A i \in 1..Len(timers) :
       (simulateTimerFires(i) /\ timers[i].sess # session)
         => state' = state]_vars

\* C29: whenever the phase is idle, TwilioService holds no connection.
C29_IdleHoldsNoConnection == state = "idle" => currentConnection = None

\* the reset timers scheduled for the session s among the timers ts
ResetsOf(ts, s) ==
  { i \in 1..Len(ts) : ts[i].kind = "reset" /\ ts[i].sess = s }

\* C30: acceptCall and declineCall when the phase is not incoming, and
\* endCall (from the hang-up button or from the transport's disconnect
\* event) when the phase is neither active nor outgoing, leave phase,
\* caller, duration, startTime, the ticker handle and the timer queue as
\* they are and deliver no snapshot; and after any step that leaves the
\* session ended (a decline, a hang-up, a disconnect event, or one of them
\* repeated for the same call), exactly one reset is scheduled for it.
C30_GuardedMethodsAreNoOps ==
  [][/\ (state # "incoming" /\ handleAcceptCall)
          => /\ UNCHANGED << state, caller, duration, startTime,
                             durationTimer, timers, screen >>
             /\ acceptCall(Store).emitted = <<>>
     /\ (state # "incoming" /\ handleDeclineCall)
          => /\ UNCHANGED << state, caller, duration, startTime,
                             durationTimer, timers, screen >>
             /\ declineCall(Store).emitted = <<>>
     /\ ( /\ state \notin {"active", "outgoing"}
          /\ handleEndCall \/ \E c \in OpenConns : onDisconnected(c) )
          => /\ UNCHANGED << state, caller, duration, startTime,
                             durationTimer, timers, screen >>
             /\ endCall(Store).emitted = <<>>
     /\ state' = "ended" => Cardinality(ResetsOf(timers', session')) = 1
    ]_vars

\* the user has hung up an answered call: the session is ended with its
\* one reset pending, and the connection's disconnect event is still to come
C30_HungUpBeforeDisconnectEvent ==
  /\ state = "ended" /\ startTime # None
  /\ session = 1
  /\ currentConnection = None /\ conns = << "open" >>
  /\ Cardinality(ResetsOf(timers, session)) = 1

\* C31: in every reachable state, phase active implies startTime is set,
\* and phase idle, incoming or outgoing implies startTime is null and
\* duration is 0; and a step gives startTime a value only when it moves the
\* session into active from another phase.
C31_StartTimeFollowsPhase ==
  /\ state = "idle" /\ startTime = None /\ duration = 0
  /\ [][/\ state' = "active" => startTime' # None
        /\ state' \in {"idle", "incoming", "outgoing"}
             => (startTime' = None /\ duration' = 0)
        /\ (startTime' # None /\ startTime' # startTime)
             => (state' = "active" /\ state # "active")
       ]_vars

\* a ring has replaced an answered call: the clock is cleared although the
\* ticker of the answered call is still scheduled
C31_RingClearedRunningClock ==
  /\ state = "incoming" /\ session = 2
  /\ startTime = None /\ duration = 0
  /\ IntervalPending

\* C32: the phase test and the write of the enriched caller of a
\* lookup-completion callback are one step: the step that writes the caller
\* starts in a phase that passes the callback's test (incoming for an
\* inbound lookup, outgoing or active for an outbound one), and it leaves
\* phase, duration, startTime, the ticker handle, the timer queue and the
\* session as they are, so no CallStore transition lies between the test
\* and the write.
C32_CheckAndWriteAreOneStep ==
  [][\A l \in lookups : \A customer \in Answers :
       lookupDone(l, customer)
         => /\ UNCHANGED << state, duration, startTime, durationTimer,
                            timers, session >>
            /\ caller' # caller
                 => /\ customer # None
                    /\ IF l.dir = "in" THEN state = "incoming"
                                       ELSE state \in {"outgoing", "active"}
                    /\ screen' # None /\ The(screen').caller = caller'
                    /\ The(screen').state = state]_vars

\* an inbound match was written while the call was still ringing
C32_InboundWrittenWhileRinging ==
  /\ state = "incoming"
  /\ \E x \in lastLookup :
       x.dir = "in" /\ x.applied /\ x.changed /\ x.at = "incoming"
         /\ x.sess = session

\* ------------------------------------------------- claims on AuthSpec
\* C33: the customer lookup endpoint returns a customer record only to a
\* request whose session_id cookie names an existing, unexpired session.
C33_LookupNeedsSession ==
  [][\A cookie \in Cookies : \A phone \in LookupPhones :
       (getCustomerByPhoneWithCookie(cookie, phone)
          /\ The(reply').customer # None)
         => \E x \in sessions :
              cookie = Some(x.id) /\ clock <= x.expires_at]_vars

\* the sessions a cookie authenticates at the server's present time
LiveSessions(cookie) ==
  { x \in sessions : cookie = Some(x.id) /\ clock <= x.expires_at }

Collides(req) ==
  \E k \in 1..Len(users) :
    users[k].email = req.email \/ users[k].agent_id = req.agent_id

\* C35: no two users ever share an email or an agent_id, also when two
\* register requests with the same email or agent_id have both passed the
\* existence checks before either inserts; the request that inserts second
\* is answered with an error, stores no user and gets no session.
C35_UsersUniqueUnderConcurrentRegister ==
  /\ [](\A k \in 1..Len(users) : \A m \in 1..Len(users) :
          k # m => /\ users[k].email # users[m].email
                   /\ users[k].agent_id # users[m].agent_id)
  /\ [][\A i \in 1..Len(pending) :
          ( /\ Len(pending') < Len(pending)
            /\ Collides(pending[i])
            /\ registerInserted(i) )
            => /\ users' = users
               /\ sessions' = sessions
               /\ \A r \in reply' : /\ r.op = "register"
                                    /\ r.status = 500
                                    /\ r.session = None
               /\ reply' # None
    ]_vars

\* two requests for the same email both passed the checks; the first
\* insert made the user and its session, the second was answered 500
C35_SecondInsertRefused ==
  /\ Len(users) = 1 /\ minted = 1 /\ Cardinality(sessions) = 1
  /\ pending = <<>>
  /\ \E r \in reply : r.op = "register" /\ r.status = 500

====
